---- MODULE Spec2Model ----
(***************************************************************************)
(* Streaming bridge of the go function invoker: pluginInvoker.Call, its    *)
(* two goroutines (sidecar2Function, function2Sidecar), the synthetic      *)
(* wrapper that canonicalize builds around a direct function, and a user   *)
(* streaming function written in the README's typical form.                *)
(***************************************************************************)
EXTENDS Integers, Sequences, FiniteSets, TLC

\* ------------------------------------------------------------------ bounds
MaxEnv == 2    \* envelopes the network client sends in one call
MaxEmit == 2   \* data values a streaming user function emits in one call

\* --------------------------------------------------------------- constants
Nil == "nil"
ErrsCap == 1   \* make(chan error, 1)
AcceptCCap == 1 \* make(chan []string, 1)

TextPlain == "text/plain"
AppJson == "application/json"
AssumedContentType == TextPlain
Absent == "absent"
NoValues == "no-values"   \* a header that is present with an empty value list
IndexOutOfRange == "index-out-of-range"   \* the run-time panic of Values[0]

ContentTypeNotSupported == "error-client-content-type-unsupported"
AcceptNotSupported == "error-client-accept-type-unsupported"
ErrorWhileUnmarshalling == "error-client-unmarshall"
RecvError == "recv-error"
SendError == "send-error"
FunctionError == "function-error"

\* ------------------------------------------------------------------- state
VARIABLES
    fn,            \* signature of the user function behind pi.fn
    callPc, i, err, collected,
    s2fPc, s2fVal, s2fReport, recvd,
    f2sPc, dataOpen, errOpen, f2sReport, f2sBranch, f2sCloseDone, accept, sent,
    fnPc, fnOpen, fnArg, fnSend, fnEnded, fnPanic, fnResult, invocations, outEmitted, errEmitted,
    errs, done, acceptC, inputClosed, outClosed, fnErrsClosed,
    posted, failed, delivered, streams, closes, crashed,
    legacy, codec, nego, loader

callVars == <<callPc, i, err, collected>>
s2fVars == <<s2fPc, s2fVal, s2fReport, recvd>>
f2sVars == <<f2sPc, dataOpen, errOpen, f2sReport, f2sBranch, f2sCloseDone, accept, sent>>
fnVars == <<fnPc, fnOpen, fnArg, fnSend, fnEnded, fnPanic, fnResult, invocations, outEmitted, errEmitted>>
chanVars == <<errs, done, acceptC, inputClosed, outClosed, fnErrsClosed>>
histVars == <<posted, failed, delivered, streams, closes, crashed>>
vars == <<fn, callVars, s2fVars, f2sVars, fnVars, chanVars, histVars, legacy, codec, nego, loader>>

\* ----------------------------------------------------- function signatures
\* Types of the values a function takes and returns.  "error" is errorType.
ErrorType == "error"
StructType == "struct{}"
ValueTypes == {"string", "int"}

\* The eight direct forms listed in canonicalize, and the two streaming forms
\* (for a streaming function ins/outs hold the element types of its channels).
DirectShapes ==
    { [streaming |-> FALSE, ins |-> a, outs |-> r] :
        a \in {<<>>, <<"string">>},
        r \in {<<>>, <<ErrorType>>} \cup { <<t>> : t \in ValueTypes }
                \cup { <<t, ErrorType>> : t \in ValueTypes } }

StreamingShapes ==
    { [streaming |-> TRUE, ins |-> <<"string">>, outs |-> r] :
        r \in { <<t>> : t \in {"string", "struct"} }
                \cup { <<t, ErrorType>> : t \in {"string", "struct"} } }

Shapes == DirectShapes \cup StreamingShapes

isAcceptingInput(f) == Len(f.ins) = 1

isErroring(f) == Len(f.outs) > 0 /\ f.outs[Len(f.outs)] = ErrorType

hasReturnValue(f) == Len(f.outs) > 0 /\ f.outs[1] # ErrorType

\* invoker.inType as canonicalize sets it
InType(f) ==
    IF f.streaming THEN f.ins[1]
    ELSE IF isAcceptingInput(f) THEN f.ins[1] ELSE StructType

\* outType of the wrapper's out channel, or the element type of a streaming
\* function's output channel
OutType(f) ==
    IF f.streaming THEN f.outs[1]
    ELSE IF hasReturnValue(f) THEN f.outs[1] ELSE StructType

\* len(channelValues): the wrapper always returns {out, errs}; a streaming
\* function returns what it declares
NumChannelValues(f) == IF f.streaming THEN Len(f.outs) ELSE 2

\* ss.fnErrs.IsValid()
HasErrStream(f) == NumChannelValues(f) = 2

\* variant: the loop counts the two goroutines only
NumReports_TwoOnly(f) == 2

\* loop bound of Call: 2 + (len(channelValues) - 1)
NumReports(f) == 2 + (NumChannelValues(f) - 1)

\* ------------------------------------------------------------ canonicalize
\* reflect.Type of a parameter or result: a channel type with its direction
\* and element type, or any other type
Chan(dir, elem) == [kind |-> "chan", dir |-> dir, elem |-> elem]

Plain(t) == [kind |-> "plain", dir |-> "", elem |-> t]

\* the nil reflect.Type
NoType == [kind |-> "none", dir |-> "", elem |-> ""]

\* the Go type of a function of the given shape, as the plugin exports it
Signature(f) ==
    IF f.streaming
    THEN [ins  |-> [k \in 1..Len(f.ins) |-> Chan("recv", f.ins[k])],
          outs |-> [k \in 1..Len(f.outs) |-> Chan("recv", f.outs[k])]]
    ELSE [ins  |-> [k \in 1..Len(f.ins) |-> Plain(f.ins[k])],
          outs |-> [k \in 1..Len(f.outs) |-> Plain(f.outs[k])]]

canReceive(t) == t.dir \in {"recv", "both"}

\* variant: a direct function may take no parameter at all
canonicalize_NoParameter(sig) ==
    IF Len(sig.ins) > 0 /\ sig.ins[1].kind # "chan"
    THEN [err |-> "too many arguments to non streaming function",
          inType |-> "", fn |-> sig]
    ELSE [err |-> Nil,
          inType |-> IF Len(sig.ins) > 0 THEN sig.ins[1].elem ELSE StructType,
          fn |-> IF Len(sig.ins) > 0 THEN sig
                 ELSE [ins  |-> <<Chan("recv", StructType)>>,
                       outs |-> <<Chan("both", StructType), Chan("both", ErrorType)>>]]

\* canonicalize: the error it returns (Nil for none), invoker.inType and the
\* type of invoker.fn afterwards
canonicalize(sig) ==
    LET inputType0  == IF Len(sig.ins) > 0 THEN sig.ins[1] ELSE NoType
        outputType0 == IF Len(sig.outs) > 0 THEN sig.outs[1] ELSE NoType
        outputType1 == IF Len(sig.outs) > 1 THEN sig.outs[2] ELSE NoType
        Failure(m)  == [err |-> m, inType |-> "", fn |-> sig]
    IN  IF Len(sig.outs) > 2
        THEN Failure("too many return values")
        ELSE IF inputType0.kind = "chan" /\ outputType0.kind = "chan"
        THEN IF ~canReceive(inputType0) \/ ~canReceive(outputType0)
             THEN Failure("wrong direction of channels")
             ELSE IF \/ outputType1 = NoType
                     \/ /\ outputType1.kind = "chan"
                        /\ outputType1.elem = ErrorType
                        /\ canReceive(outputType1)
             THEN [err |-> Nil, inType |-> inputType0.elem, fn |-> sig]
             ELSE Failure("second return type of function should be ([<-]chan error)")
        ELSE IF Len(sig.ins) > 1
        THEN Failure("too many arguments to non streaming function")
        ELSE LET inType  == IF Len(sig.ins) = 1 THEN sig.ins[1].elem
                            ELSE StructType
                 outType == IF Len(sig.outs) > 0 /\ sig.outs[1] # Plain(ErrorType)
                            THEN sig.outs[1].elem ELSE StructType
             IN  [err |-> Nil, inType |-> inType,
                  fn |-> [ins  |-> <<Chan("recv", inType)>>,
                          outs |-> <<Chan("both", outType),
                                     Chan("both", ErrorType)>>]]

\* ---------------------------------------------------------- NewInvoker
\* a function URI, by what NewInvoker finds out about it: whether url.Parse
\* accepts it, its scheme, whether plugin.Open loads the library at its path,
\* whether it has a handler parameter and whether the library exports that
\* name, and whether the exported symbol is a function
Uris ==
    [parses : BOOLEAN, scheme : {"", "file", "http"}, loads : BOOLEAN,
     handler : {"absent", "exported", "unknown"}, isFunc : BOOLEAN]

\* a URI that names an exported function of a loadable library
GoodUri ==
    [parses |-> TRUE, scheme |-> "file", loads |-> TRUE,
     handler |-> "exported", isFunc |-> TRUE]

\* the parameter and result types of the exported functions considered
ParamTypes == {Plain("string"), Chan("recv", "string"), Chan("send", "string")}

ResultTypes ==
    {Plain("string"), Plain(ErrorType), Chan("recv", "string"),
     Chan("send", "string"), Chan("recv", ErrorType), Chan("send", ErrorType)}

\* functions of up to two parameters and three results
Signatures ==
    [ins  : UNION {[1..n -> ParamTypes] : n \in 0..2},
     outs : UNION {[1..n -> ResultTypes] : n \in 0..3}]

\* what NewInvoker ends with: the invoker and a nil error, an error, or a
\* run-time panic
NewInvoker(uri, sig) ==
    LET Failure(m) == [pc |-> "error", err |-> m, inType |-> "", fnType |-> sig]
        Panics(m)  == [pc |-> "panic", err |-> m, inType |-> "", fnType |-> sig]
    IN  IF ~uri.parses THEN Failure("url.Parse")
        ELSE IF uri.scheme # "" /\ uri.scheme # "file"
        THEN Failure("Unsupported scheme in function URI")
        ELSE IF ~uri.loads THEN Failure("plugin.Open")
        ELSE IF uri.handler = "absent" THEN Panics(IndexOutOfRange)
        ELSE IF uri.handler = "unknown" THEN Failure("plugin.Lookup")
        ELSE IF ~uri.isFunc THEN Panics("reflect: NumIn of non-func type")
        ELSE LET c == canonicalize(sig)
             IN  IF c.err # Nil THEN Failure(c.err)
                 ELSE [pc |-> "invoker", err |-> Nil, inType |-> c.inType,
                       fnType |-> c.fn]

\* pi.fn.Call([]reflect.Value{input}) at the start of Call: reflect panics
\* when the function does not take exactly the one argument it is given
CallWithInput(fnType) ==
    IF Len(fnType.ins) # 1 THEN "panic" ELSE "called"

\* no function is being loaded
LoaderIdle ==
    [pc |-> "idle", uri |-> GoodUri,
     sig |-> [ins |-> <<>>, outs |-> <<>>],
     err |-> Nil, inType |-> "", fnType |-> [ins |-> <<>>, outs |-> <<>>]]

\* ------------------------------------------------- marshalling/negotiation
ContentTypes == {Absent, TextPlain, AppJson, "text/foobar"}

\* the Content-Type header as it comes off the wire: absent, present with a
\* first value, or present with no value at all
ContentTypeHeaders == ContentTypes \cup {NoValues}

\* the values of an Accept header as they come off the wire: a header without
\* values decodes to the nil list, written <<>>
AcceptLists == {<<>>, <<TextPlain>>, <<AppJson>>, <<"bogus/type">>}

\* in.Headers[Accept] == nil
NoAccept == [present |-> FALSE, values |-> <<>>]

AcceptHeaders == {NoAccept} \cup {[present |-> TRUE, values |-> l] : l \in AcceptLists}

\* an inbound envelope of a streaming call: its Content-Type header (absent
\* or with a value) and Accept header, and whether its payload decodes as
\* JSON into the input type
Envelopes == [contentType : ContentTypes, accept : AcceptHeaders, jsonOk : BOOLEAN]

\* messageToFunctionArgs: the registered unmarshallers are tried in order
\* (json, then text); the result is a value (Nil error) or an error code.
\* ct.Values[0] is evaluated whenever the header is present: with an empty
\* value list the index is out of range.
messageToFunctionArgs(f, env) ==
    LET contentType == IF env.contentType = Absent THEN AssumedContentType
                       ELSE env.contentType
    IN  IF env.contentType = NoValues THEN IndexOutOfRange
        ELSE IF contentType = AppJson
        THEN IF env.jsonOk THEN Nil ELSE ErrorWhileUnmarshalling
        ELSE IF contentType = TextPlain /\ InType(f) = "string"
        THEN Nil
        ELSE ContentTypeNotSupported

\* result.marshallers, in the order of registration
Marshallers == <<"json", "text">>

\* supportedMediaTypes of marshaller m for a value of type t
supportedMediaTypes(m, t) ==
    IF m = "json" THEN {AppJson}
    ELSE IF t = "string" THEN {TextPlain} ELSE {}

\* the map functionResultToMessage builds from media type to marshaller: the
\* marshallers are asked in order and an entry that is present is kept
MarshallerMap(t) ==
    LET Offers(k) == supportedMediaTypes(Marshallers[k], t)
    IN  [o \in UNION {Offers(k) : k \in 1..Len(Marshallers)} |->
            Marshallers[CHOOSE k \in 1..Len(Marshallers) :
                            /\ o \in Offers(k)
                            /\ \A j \in 1..(k - 1) : o \notin Offers(j)]]

\* the media types offered for a value of type t: the keys of that map
supportedMarshallers(t) == DOMAIN MarshallerMap(t)

\* the orders in which a range over a map with the given keys may visit them
OfferOrders(keys) ==
    {q \in [1..Cardinality(keys) -> keys] :
        \A a, b \in 1..Cardinality(keys) : a # b => q[a] # q[b]}

AnyType == "*/*"
AnyText == "text/*"
JsonHalf == "application/json;q=0.5"

\* header.ParseAccept of one Accept value: the media range and its weight in
\* tenths (1.0 when the value has no q parameter)
AcceptSpec(v) ==
    IF v = JsonHalf THEN [value |-> AppJson, q |-> 5] ELSE [value |-> v, q |-> 10]

\* the part of a media type or range before the slash
MainType(v) == IF v \in {TextPlain, "text/foobar", AnyText} THEN "text" ELSE "other"

\* one turn of the inner loop of NegotiateContentType: the best match so far
\* is replaced by the offer when the range matches it with a greater weight
\* or, at the same weight, more specifically
NegotiateStep(best, offer, spec) ==
    LET Better(wild) == spec.q > best.q \/ best.wild > wild
        Take(wild) == [offer |-> offer, q |-> spec.q, wild |-> wild]
    IN  IF spec.q = 0 \/ spec.q < best.q THEN best
        ELSE IF spec.value = AnyType
        THEN IF Better(2) THEN Take(2) ELSE best
        ELSE IF spec.value = AnyText
        THEN IF MainType(offer) = "text" /\ Better(1) THEN Take(1) ELSE best
        ELSE IF spec.value = offer /\ Better(0) THEN Take(0) ELSE best

\* for _, offer := range offers { for _, spec := range specs { ... } }
RECURSIVE NegotiateFrom(_, _, _, _, _)
NegotiateFrom(acc, offers, a, b, best) ==
    IF a > Len(offers) THEN best.offer
    ELSE IF b > Len(acc) THEN NegotiateFrom(acc, offers, a + 1, 1, best)
    ELSE NegotiateFrom(acc, offers, a, b + 1,
                       NegotiateStep(best, offers[a], AcceptSpec(acc[b])))

\* httputil.NegotiateContentType: of two offers that match with equal weight
\* and specificity the one earlier in offers is kept
NegotiateContentType(acc, offers, defaultOffer) ==
    NegotiateFrom(acc, offers, 1, 1, [offer |-> defaultOffer, q |-> 0 - 1, wild |-> 3])

\* variant: a nil accept list is negotiated as it stands
bestMarshaller_NoDefault(acc, offers) ==
    NegotiateContentType(acc, offers, "")

\* bestMarshaller: a nil accept list stands for text/plain; offers holds the
\* keys of the marshaller map in the order the range over the map visited
\* them; the result is the chosen media type, "" when there is none
bestMarshaller(acc, offers) ==
    NegotiateContentType(IF acc = <<>> THEN <<TextPlain>> ELSE acc, offers, "")

\* functionResultToMessage: Nil when an envelope is produced, else the error
functionResultToMessage(t, acc, offers) ==
    IF bestMarshaller(acc, offers) # "" THEN Nil
    ELSE AcceptNotSupported

\* variant: the chosen media type is held by a variable of an inner block and
\* the header is built from the outer one, which is still empty
MessageContentType_Shadowed(chosen) == ""

\* the value of the Content-Type header of the envelope built for a result:
\* string(contentType), the media type bestMarshaller returned
MessageContentType(chosen) == chosen

\* no result is being turned into an envelope
NegoIdle ==
    [pc |-> "idle", type |-> "string", accept |-> <<>>, offers |-> <<>>,
     chosen |-> "", marshaller |-> "", contentType |-> "", err |-> Nil]

\* ------------------------------------------------ the two payload formats
\* A JSON scalar: a string, a number or null, with its text.
JScalar(kind, text) == [kind |-> kind, text |-> text]

JNullScalar == JScalar("null", "")

Scalars == {JScalar("string", "a"), JScalar("number", "0"), JNullScalar}

MemberNames == {"Word", "Count", "Extra"}

\* A JSON value: a scalar, or an object given by its members (a function from
\* member names to scalars); a payload that is not JSON at all is "invalid".
JValue(kind, text, members) == [kind |-> kind, text |-> text, members |-> members]

NoMembers == [n \in {} |-> JNullScalar]

JValues ==
    {JValue(sc.kind, sc.text, NoMembers) : sc \in Scalars \cup {JScalar("string", "")}}
    \cup {JValue("invalid", "", NoMembers)}
    \cup UNION {{JValue("object", "", m) : m \in [names -> Scalars]} :
                    names \in SUBSET MemberNames}

\* A JSON payload: its first value, whether insignificant whitespace
\* surrounds it, and whether more data follows the first value.
JsonDocs == [value : JValues, space : BOOLEAN, rest : BOOLEAN]

NoDoc == [value |-> JValue("invalid", "", NoMembers), space |-> FALSE, rest |-> FALSE]

\* plain-text payloads: any bytes
TextPayloads == {"", "a", " a\n", "\"a\""}

\* the Go values of the two types that are unmarshalled into: a string, and
\* the struct RLE{Word string; Count int}
GoString(str) == [type |-> "string", str |-> str, Word |-> "", Count |-> "0"]

GoStruct(word, count) == [type |-> "struct", str |-> "", Word |-> word, Count |-> count]

\* reflect.New(t): the zero value the decoder fills in
ZeroValue(t) == IF t = "string" THEN GoString("") ELSE GoStruct("", "0")

\* can the decoder store the scalar in a field of the given kind
ScalarFits(sc, kind) == sc.kind = "null" \/ sc.kind = kind

\* jsonMarshalling.unmarshall: json.NewDecoder(r).Decode reads the first
\* value of the payload only; null leaves the target as it is; members that
\* are not fields of the struct are skipped and fields without a member keep
\* their zero value.  The result is the value and an error (Nil for none).
jsonUnmarshall(doc, t) ==
    LET v == doc.value
        Field(name, kind, zero) ==
            IF name \in DOMAIN v.members /\ v.members[name].kind = kind
            THEN v.members[name].text ELSE zero
    IN  IF v.kind = "invalid"
        THEN [err |-> ErrorWhileUnmarshalling, value |-> ZeroValue(t)]
        ELSE IF v.kind = "null"
        THEN [err |-> Nil, value |-> ZeroValue(t)]
        ELSE IF t = "string"
        THEN IF v.kind = "string"
             THEN [err |-> Nil, value |-> GoString(v.text)]
             ELSE [err |-> ErrorWhileUnmarshalling, value |-> ZeroValue(t)]
        ELSE IF /\ v.kind = "object"
                /\ ("Word" \in DOMAIN v.members => ScalarFits(v.members["Word"], "string"))
                /\ ("Count" \in DOMAIN v.members => ScalarFits(v.members["Count"], "number"))
        THEN [err |-> Nil,
              value |-> GoStruct(Field("Word", "string", ""), Field("Count", "number", "0"))]
        ELSE [err |-> ErrorWhileUnmarshalling, value |-> ZeroValue(t)]

\* variant: fields holding their zero value are left out (omitempty)
jsonMarshall_OmitEmpty(v) ==
    [value |-> IF v.type = "string"
               THEN JValue("string", v.str, NoMembers)
               ELSE JValue("object", "",
                        [n \in {m \in {"Word", "Count"} :
                                    IF m = "Word" THEN v.Word # "" ELSE v.Count # "0"} |->
                            IF n = "Word" THEN JScalar("string", v.Word)
                            ELSE JScalar("number", v.Count)]),
     space |-> TRUE, rest |-> FALSE]

\* jsonMarshalling.marshall: json.NewEncoder(w).Encode writes the value with
\* every field of a struct, followed by a newline
jsonMarshall(v) ==
    [value |-> IF v.type = "string"
               THEN JValue("string", v.str, NoMembers)
               ELSE JValue("object", "",
                        [n \in {"Word", "Count"} |->
                            IF n = "Word" THEN JScalar("string", v.Word)
                            ELSE JScalar("number", v.Count)]),
     space |-> TRUE, rest |-> FALSE]

\* canUnmarshall of the two unmarshallers
canUnmarshall(t, mediaType) ==
    \/ mediaType = AppJson
    \/ mediaType = TextPlain /\ t = "string"

\* textMarshalling.unmarshall: buf.String() of everything read
textUnmarshall(bytes) == [err |-> Nil, value |-> GoString(bytes)]

\* textMarshalling.marshall: the string itself for a string; a value that is
\* neither a string nor a Stringer is written as the empty string
textMarshall(v) == IF v.type = "string" THEN v.str ELSE ""

\* no round trip is in progress
CodecIdle ==
    [pc |-> "idle", header |-> Absent, mediaType |-> TextPlain, type |-> "string", text |-> "",
     doc |-> NoDoc, err |-> Nil, value |-> ZeroValue("string"),
     outText |-> "", outDoc |-> NoDoc]

\* ------------------------------------------- legacy single-envelope invoke
\* header names
ContentType == "Content-Type"
Accept == "Accept"
CorrelationId == "correlationId"
Error == "error"

ErrorWhileMarshalling == "error-client-marshall"
InvocationError == "error-server-function-invocation"

\* requestReplyHeaders, set by init()
requestReplyHeaders == {CorrelationId}

\* an entry of a header map: a *Message_HeaderValue, which may be nil
HeaderValue(vs) == [isNil |-> FALSE, values |-> vs]

NilHeaderValue == [isNil |-> TRUE, values |-> <<>>]

\* the functions newInvoker admits: exactly one parameter, at most two
\* results, the last of two being an error
LegacyShapes ==
    { [streaming |-> FALSE, ins |-> <<"string">>, outs |-> r] :
        r \in {<<>>} \cup { <<t>> : t \in {"string", "int", "chan"} }
                \cup { <<t, ErrorType>> : t \in {"string", "int", "chan"} } }

CorrelationHeaders ==
    {NoAccept, [present |-> TRUE, values |-> <<"foobar">>],
     [present |-> TRUE, values |-> <<"42">>]}

\* a request envelope: its three recognised headers and whether its payload
\* decodes as JSON into the parameter type
Requests ==
    [contentType : ContentTypeHeaders, accept : AcceptHeaders,
     correlationId : CorrelationHeaders, jsonOk : BOOLEAN]

\* in.Headers[h]
RequestHeader(req, h) ==
    IF h = ContentType
    THEN IF req.contentType = Absent THEN NilHeaderValue
         ELSE IF req.contentType = NoValues THEN HeaderValue(<<>>)
         ELSE HeaderValue(<<req.contentType>>)
    ELSE IF h = Accept
    THEN IF req.accept.present THEN HeaderValue(req.accept.values)
         ELSE NilHeaderValue
    ELSE IF h = CorrelationId
    THEN IF req.correlationId.present THEN HeaderValue(req.correlationId.values)
         ELSE NilHeaderValue
    ELSE NilHeaderValue

\* invokerError.Error(): the cause's text if there is a cause, else the
\* message; a text is a sequence of fragments
InvokerErrorText(code, req) ==
    IF code = ContentTypeNotSupported
    THEN <<"Unsupported Content-Type: ",
           IF req.contentType = Absent THEN AssumedContentType ELSE req.contentType>>
    ELSE IF code = ErrorWhileUnmarshalling THEN <<"json: cannot decode">>
    ELSE IF code = ErrorWhileMarshalling THEN <<"json: unsupported type">>
    ELSE IF code = InvocationError THEN <<"Oops">>
    ELSE <<>>

\* a response of invoke: an envelope, or the panic that ends the invocation
Envelope(payload, headers) ==
    [kind |-> "envelope", payload |-> payload, headers |-> headers]

Panic == [kind |-> "panic", payload |-> <<>>, headers |-> [h \in {} |-> NilHeaderValue]]

NoResponse == [kind |-> "none", payload |-> <<>>, headers |-> [h \in {} |-> NilHeaderValue]]

\* errorToMessage for an invokerError
errorToMessage(code, req) ==
    Envelope(InvokerErrorText(code, req),
             [h \in {ContentType, Error} |->
                 IF h = ContentType THEN HeaderValue(<<TextPlain>>)
                 ELSE HeaderValue(<<code>>)])

\* variant: only the success path copies the request-reply headers
propagateHeaders_SuccessOnly(req, out) ==
    IF Error \in DOMAIN out.headers THEN out
    ELSE [out EXCEPT !.headers =
            [h \in DOMAIN out.headers \cup requestReplyHeaders |->
                IF h \in requestReplyHeaders THEN RequestHeader(req, h)
                ELSE out.headers[h]]]

\* propagateHeaders: out.Headers[h] = in.Headers[h] for each request-reply
\* header
propagateHeaders(req, out) ==
    [out EXCEPT !.headers =
        [h \in DOMAIN out.headers \cup requestReplyHeaders |->
            IF h \in requestReplyHeaders THEN RequestHeader(req, h)
            ELSE out.headers[h]]]

\* does chosen.marshall fail: json cannot encode a channel
MarshallFails(t, mediaType) == t = "chan" /\ mediaType = AppJson

\* the accept list of the request as the legacy bestMarshaller reads it
LegacyAccept(req) == IF req.accept.present THEN req.accept.values ELSE <<>>

\* the legacy functionResultToMessage: an envelope, or the code of the error.
\* The media type chosen inside the success block is a variable of that block
\* (declared by :=); the Content-Type header is built from the outer one,
\* which still holds the empty string.
LegacyResultToMessage(f, req, e, offers) ==
    IF Len(f.outs) = 1 \/ e = Nil
    THEN LET chosen == bestMarshaller(LegacyAccept(req), offers)
         IN  IF chosen = "" THEN [code |-> AcceptNotSupported]
             ELSE IF MarshallFails(f.outs[1], chosen)
             THEN [code |-> ErrorWhileMarshalling]
             ELSE [code |-> Nil,
                   message |-> Envelope(<<"result as ", chosen>>,
                        [h \in {ContentType} |-> HeaderValue(<<"">>)])]
    ELSE [code |-> InvocationError]

\* invoke for a function f whose call returns the error e (Nil for none);
\* with no result at all, values[1] is out of range and the invocation panics
invoke(f, req, e, offers) ==
    IF messageToFunctionArgs(f, req) = IndexOutOfRange THEN Panic
    ELSE IF messageToFunctionArgs(f, req) # Nil
    THEN propagateHeaders(req, errorToMessage(messageToFunctionArgs(f, req), req))
    ELSE IF Len(f.outs) = 0 THEN Panic
    ELSE LET r == LegacyResultToMessage(f, req, e, offers)
         IN  IF r.code # Nil
             THEN propagateHeaders(req, errorToMessage(r.code, req))
             ELSE propagateHeaders(req, r.message)

\* no single-envelope invocation is in progress
LegacyIdle ==
    [pc |-> "idle", fn |-> [streaming |-> FALSE, ins |-> <<>>, outs |-> <<>>],
     request |-> [contentType |-> Absent, accept |-> NoAccept,
                  correlationId |-> NoAccept, jsonOk |-> FALSE],
     fnResult |-> Nil, response |-> NoResponse]

\* ----------------------------------------------------------------- helpers
Closes0 == [input |-> 0, out |-> 0, fnErrs |-> 0, done |-> 0]

\* what a function goroutine is sending: a data value on its output channel
\* or an element on its error channel
SendValue(v) == [value |-> v, err |-> Nil]

SendErr(e) == [value |-> 0, err |-> e]

NoSend == [value |-> 0, err |-> Nil]

\* a report as it is posted on s.errs, tagged with the party that posts it
Report(party, e) == [party |-> party, err |-> e]

Parties == {"inbound", "data", "error"}

\* ------------------------------------------------------------------- Init
\* State right after Call has made the input channel, called pi.fn (which,
\* for a wrapped function, has started the wrapper goroutine) and started
\* the two goroutines.
StreamInit ==
    /\ fn \in Shapes
    /\ callPc = "collect" /\ i = 0 /\ err = Nil /\ collected = <<>>
    /\ s2fPc = "recv" /\ s2fVal = 0 /\ s2fReport = Nil /\ recvd = 0
    /\ f2sPc = "select" /\ dataOpen = TRUE /\ errOpen = HasErrStream(fn)
    /\ f2sReport = Nil /\ f2sBranch = "none" /\ f2sCloseDone = FALSE
    /\ accept = <<>> /\ sent = <<>>
    /\ fnPc = "recv" /\ fnOpen = FALSE /\ fnArg = 0 /\ fnSend = NoSend
    /\ fnEnded = FALSE /\ fnPanic = FALSE /\ fnResult = "none"
    /\ invocations = 0 /\ outEmitted = 0 /\ errEmitted = 0
    /\ errs = <<>> /\ done = FALSE /\ acceptC = <<>>
    /\ inputClosed = FALSE /\ outClosed = FALSE /\ fnErrsClosed = FALSE
    /\ posted = <<>> /\ failed = {} /\ delivered = 0 /\ closes = Closes0 /\ crashed = FALSE
    /\ streams = [input |-> <<>>, output |-> <<>>, headers |-> <<>>, accepts |-> <<>>]

\* a process that serves streaming calls: no single-envelope invocation
Init ==
    /\ StreamInit
    /\ legacy = LegacyIdle
    /\ codec = CodecIdle
    /\ nego = NegoIdle
    /\ loader = LoaderIdle

\* ------------------------------------------------------- channel operations
\* close(ch): closing a closed channel panics and takes the process down
CloseChan(name, isClosed) ==
    /\ closes' = [closes EXCEPT ![name] = @ + 1]
    /\ crashed' = isClosed

\* s.errs <- e can proceed when the buffer has room (or Call is receiving,
\* which is the same as passing through the free slot)
CanPost == Len(errs) < ErrsCap

Post(r) ==
    /\ errs' = Append(errs, r)
    /\ posted' = Append(posted, r)

\* ---------------------------------------------------------------- Call loop
\* variant: the loop never ends early and keeps the last report
CallBreaks_Never(e) == FALSE

\* the test that ends the collecting loop early
CallBreaks(e) == e # Nil

\* one iteration of: err, _ = <-ss.errs; if err != nil { break }
Call ==
    /\ ~crashed /\ callPc = "collect" /\ i < NumReports(fn)
    /\ Len(errs) > 0
    /\ LET r == Head(errs) IN
        /\ errs' = Tail(errs)
        /\ err' = r.err
        /\ collected' = Append(collected, r)
        /\ IF CallBreaks(r.err)
           THEN i' = i /\ callPc' = "returned"
           ELSE /\ i' = i + 1
                /\ callPc' = IF i + 1 < NumReports(fn) THEN "collect" ELSE "returned"
    /\ UNCHANGED <<fn, legacy, codec, nego, loader, s2fVars, f2sVars, fnVars>>
    /\ UNCHANGED <<done, acceptC, inputClosed, outClosed, fnErrsClosed>>
    /\ UNCHANGED histVars

\* -------------------------------------------- sidecar2Function (inbound task)
\* variant: the report is made without closing s.input
S2FCloseAndReport_NoClose(e) ==
    /\ s2fReport' = e
    /\ s2fPc' = "post"
    /\ failed' = IF e # Nil THEN failed \cup {Report("inbound", e)} ELSE failed
    /\ UNCHANGED <<inputClosed, closes, crashed>>

\* s.input.Close() followed by the pending s.errs <- e
S2FCloseAndReport(e) ==
    /\ inputClosed' = TRUE
    /\ CloseChan("input", inputClosed)
    /\ s2fReport' = e
    /\ s2fPc' = "post"
    /\ failed' = IF e # Nil THEN failed \cup {Report("inbound", e)} ELSE failed

\* Recv returns io.EOF
S2FRecvEOF ==
    /\ ~crashed /\ s2fPc = "recv"
    /\ S2FCloseAndReport(Nil)
    /\ UNCHANGED <<fn, legacy, codec, nego, loader, callVars, f2sVars, fnVars, s2fVal, recvd>>
    /\ UNCHANGED <<errs, done, acceptC, outClosed, fnErrsClosed, posted, delivered, streams>>

\* Recv returns another error (the client went away)
S2FRecvError ==
    /\ ~crashed /\ s2fPc = "recv"
    /\ S2FCloseAndReport(RecvError)
    /\ UNCHANGED <<fn, legacy, codec, nego, loader, callVars, f2sVars, fnVars, s2fVal, recvd>>
    /\ UNCHANGED <<errs, done, acceptC, outClosed, fnErrsClosed, posted, delivered, streams>>

\* variant: the Accept header is not published before the value is handed on
PublishAccept_Never(env) == acceptC' = acceptC

\* non-blocking publication of the Accept header on s.acceptC
PublishAccept(env) ==
    acceptC' = IF env.accept.present /\ Len(acceptC) < AcceptCCap
               THEN Append(acceptC, env.accept.values) ELSE acceptC

\* Recv returns an envelope: publish Accept, unmarshal, then either fail or
\* go on to the send-or-cancel select with the value in hand
S2FRecvMessage ==
    /\ ~crashed /\ s2fPc = "recv" /\ recvd < MaxEnv
    /\ \E env \in Envelopes :
        /\ recvd' = recvd + 1
        /\ PublishAccept(env)
        /\ IF messageToFunctionArgs(fn, env) = IndexOutOfRange
           THEN /\ crashed' = TRUE
                /\ UNCHANGED <<s2fVal, s2fPc, s2fReport, inputClosed, failed, closes>>
           ELSE IF messageToFunctionArgs(fn, env) # Nil
           THEN /\ S2FCloseAndReport(messageToFunctionArgs(fn, env))
                /\ UNCHANGED s2fVal
           ELSE /\ s2fVal' = recvd + 1
                /\ s2fPc' = "select"
                /\ UNCHANGED <<s2fReport, inputClosed, failed, closes, crashed>>
        /\ streams' = [streams EXCEPT !.headers = Append(@, env.accept)]
    /\ UNCHANGED <<fn, legacy, codec, nego, loader, callVars, f2sVars, fnVars>>
    /\ UNCHANGED <<errs, done, outClosed, fnErrsClosed, posted, delivered>>

\* the select chose the receive on s.done (done is closed)
S2FCancelled ==
    /\ ~crashed /\ s2fPc = "select" /\ done
    /\ S2FCloseAndReport(Nil)
    /\ UNCHANGED <<fn, legacy, codec, nego, loader, callVars, f2sVars, fnVars, s2fVal, recvd>>
    /\ UNCHANGED <<errs, done, acceptC, outClosed, fnErrsClosed, posted, delivered, streams>>

\* variant: the loop goes on after the report
S2FAfterPost_Continue == "recv"

\* the break that follows every report of the inbound task
S2FAfterPost == "done"

\* s.errs <- report, then the goroutine returns
S2FPost ==
    /\ ~crashed /\ s2fPc = "post" /\ CanPost
    /\ Post(Report("inbound", s2fReport))
    /\ s2fPc' = S2FAfterPost
    /\ UNCHANGED <<fn, legacy, codec, nego, loader, callVars, f2sVars, fnVars, s2fVal, s2fReport, recvd>>
    /\ UNCHANGED <<done, acceptC, inputClosed, outClosed, fnErrsClosed>>
    /\ UNCHANGED <<failed, delivered, streams, closes, crashed>>

\* --------------------------------------- wrapper goroutine of canonicalize
\* i, open := in.Recv()
WrapperRecv(open, v) ==
    /\ fnOpen' = open
    /\ fnArg' = v
    /\ fnPc' = "invoke"
    /\ UNCHANGED <<fnSend, fnEnded, fnPanic, fnResult, invocations, outEmitted, errEmitted>>

\* the error results a call of the inner function may produce
InnerErrors(f) == IF isErroring(f) THEN {Nil, FunctionError} ELSE {Nil}

\* variant: the closes are not deferred and a return skips them
WrapperReturn_NoClose == "done"

\* return from the wrapper goroutine: the deferred errs.Close() and
\* out.Close() run
WrapperReturn == "closeErrs"

\* variant: the data return is sent whether or not the error return is nil
WrapperDispatch_DataFirst(e) ==
    IF hasReturnValue(fn)
    THEN fnSend' = SendValue(fnArg) /\ fnPc' = "sendOut"
    ELSE IF isErroring(fn) /\ e # Nil
    THEN fnSend' = SendErr(e) /\ fnPc' = "sendErr"
    ELSE fnSend' = NoSend /\ fnPc' = WrapperReturn

\* what the wrapper does with fnResult: the non-nil error goes to errs, else
\* the data return (if the function has one) goes to out
WrapperDispatch(e) ==
    IF isErroring(fn) /\ e # Nil
    THEN fnSend' = SendErr(e) /\ fnPc' = "sendErr"
    ELSE IF hasReturnValue(fn)
    THEN fnSend' = SendValue(fnArg) /\ fnPc' = "sendOut"
    ELSE fnSend' = NoSend /\ fnPc' = WrapperReturn

\* oldFn.Call(...) and the dispatch of its result
WrapperCallInner ==
    /\ invocations' = invocations + 1
    /\ \E e \in InnerErrors(fn) :
        /\ fnResult' = e
        /\ WrapperDispatch(e)
    /\ UNCHANGED fnPanic

\* variant: a closed input never makes the wrapper skip the invocation
InputClosedEarly_Never(open, f) == FALSE

\* "input closed early, because of earlier (eg unmarshalling) error"
InputClosedEarly(open, f) == ~open /\ isAcceptingInput(f)

\* the three-way branch after in.Recv().  reflect's Call panics when it is
\* handed an argument for a function that takes none; the deferred closes
\* still run before the process dies.
WrapperInvoke ==
    /\ ~crashed /\ ~fn.streaming /\ fnPc = "invoke"
    /\ IF fnOpen
       THEN IF isAcceptingInput(fn)
            THEN WrapperCallInner
            ELSE /\ fnPanic' = TRUE /\ fnPc' = WrapperReturn
                 /\ UNCHANGED <<fnSend, fnResult, invocations>>
       ELSE IF ~InputClosedEarly(fnOpen, fn)
            THEN WrapperCallInner
            ELSE /\ fnPc' = WrapperReturn
                 /\ UNCHANGED <<fnSend, fnResult, invocations, fnPanic>>
    /\ UNCHANGED <<fn, legacy, codec, nego, loader, callVars, s2fVars, f2sVars, chanVars, histVars>>
    /\ UNCHANGED <<fnOpen, fnArg, fnEnded, outEmitted, errEmitted>>

\* ------------------------------------- streaming user function (README form)
\* for in := range input { ... }: on a value the function may emit a data
\* value, emit on its error channel and return, or take the next value; when
\* input is closed it may emit a last value before it returns
StreamRecv(open, v) ==
    /\ fnOpen' = open
    /\ fnArg' = v
    /\ fnEnded' = ~open
    /\ \/ /\ open
          /\ fnPc' = "recv" /\ fnSend' = NoSend
       \/ /\ ~open
          /\ fnPc' = "closeErrs" /\ fnSend' = NoSend
       \/ /\ outEmitted < MaxEmit
          /\ fnPc' = "sendOut" /\ fnSend' = SendValue(outEmitted + 1)
       \/ /\ open /\ HasErrStream(fn)
          /\ fnPc' = "sendErr" /\ fnSend' \in {SendErr(FunctionError), SendErr(Nil)}
    /\ UNCHANGED <<fnPanic, fnResult, invocations, outEmitted, errEmitted>>

FnRecv(open, v) ==
    IF fn.streaming THEN StreamRecv(open, v) ELSE WrapperRecv(open, v)

\* the function's receive on input finds the channel closed
FnRecvClosed ==
    /\ ~crashed /\ fnPc = "recv" /\ inputClosed
    /\ FnRecv(FALSE, 0)
    /\ UNCHANGED <<fn, legacy, codec, nego, loader, callVars, s2fVars, f2sVars, chanVars, histVars>>

\* the select of the inbound task chose the send on s.input: the value passes
\* to the function's receive
S2FSendInput ==
    /\ ~crashed /\ s2fPc = "select" /\ fnPc = "recv" /\ ~inputClosed
    /\ FnRecv(TRUE, s2fVal)
    /\ s2fPc' = "recv"
    /\ delivered' = delivered + 1
    /\ streams' = [streams EXCEPT !.input = Append(@, s2fVal)]
    /\ UNCHANGED <<fn, legacy, codec, nego, loader, callVars, f2sVars, chanVars, s2fVal, s2fReport, recvd>>
    /\ UNCHANGED <<posted, failed, closes, crashed>>

\* variant: the wrapper goes back to receive the next input value
FnAfterSendOut_Loop ==
    /\ fnPc' = IF fn.streaming /\ fnEnded THEN "closeErrs" ELSE "recv"
    /\ outEmitted' = outEmitted + 1
    /\ UNCHANGED <<fnOpen, fnArg, fnSend, fnEnded, fnPanic, fnResult, invocations, errEmitted>>

\* where the function goes once its send on out has been taken
FnAfterSendOut ==
    /\ fnPc' = IF fn.streaming
                THEN (IF fnEnded THEN "closeErrs" ELSE "recv")
                ELSE WrapperReturn
    /\ outEmitted' = outEmitted + 1
    /\ UNCHANGED <<fnOpen, fnArg, fnSend, fnEnded, fnPanic, fnResult, invocations, errEmitted>>

\* once its send on errs has been taken the function returns
FnAfterSendErr ==
    /\ fnPc' = "closeErrs"
    /\ errEmitted' = errEmitted + 1
    /\ UNCHANGED <<fnOpen, fnArg, fnSend, fnEnded, fnPanic, fnResult, invocations, outEmitted>>

\* defer errs.Close() / defer close(errors): runs first
FnCloseErrs ==
    /\ ~crashed /\ fnPc = "closeErrs"
    /\ IF HasErrStream(fn)
       THEN fnErrsClosed' = TRUE /\ CloseChan("fnErrs", fnErrsClosed)
       ELSE UNCHANGED <<fnErrsClosed, closes, crashed>>
    /\ fnPc' = "closeOut"
    /\ UNCHANGED <<fn, legacy, codec, nego, loader, callVars, s2fVars, f2sVars>>
    /\ UNCHANGED <<fnOpen, fnArg, fnSend, fnEnded, fnPanic, fnResult, invocations, outEmitted, errEmitted>>
    /\ UNCHANGED <<errs, done, acceptC, inputClosed, outClosed, posted, failed, delivered, streams>>

\* defer out.Close() / defer close(out): runs last; a panicking goroutine
\* ends the process once its deferred calls have run
FnCloseOut ==
    /\ ~crashed /\ fnPc = "closeOut"
    /\ outClosed' = TRUE
    /\ closes' = [closes EXCEPT !.out = @ + 1]
    /\ crashed' = (outClosed \/ fnPanic)
    /\ fnPc' = "done"
    /\ UNCHANGED <<fn, legacy, codec, nego, loader, callVars, s2fVars, f2sVars>>
    /\ UNCHANGED <<fnOpen, fnArg, fnSend, fnEnded, fnPanic, fnResult, invocations, outEmitted, errEmitted>>
    /\ UNCHANGED <<errs, done, acceptC, inputClosed, fnErrsClosed, posted, failed, delivered, streams>>

\* ------------------------------------------- function2Sidecar (outbound task)
\* number of branches still in the wait set
OpenBranches(d, e) == (IF d THEN 1 ELSE 0) + (IF e THEN 1 ELSE 0)

\* if open == 0 { break }
F2SLoopEnd(d, e) == IF OpenBranches(d, e) = 0 THEN "done" ELSE "select"

\* the accept list used for a value: while it is nil it is taken from the
\* relay if that holds one, else it becomes the default
ResolveAccept ==
    IF accept # <<>> THEN accept
    ELSE IF Len(acceptC) > 0 THEN Head(acceptC) ELSE <<TextPlain>>

\* variant: the envelope is put twice on the network stream
SendEnvelope_Twice(q, m) == Append(Append(q, m), m)

\* s.sidecar.Send(marshalled) succeeding: the envelope follows those sent
SendEnvelope(q, m) == Append(q, m)

\* a report is pending on s.errs for the given branch
F2SReportPending(branch, e, closeDone) ==
    /\ f2sReport' = e
    /\ f2sBranch' = branch
    /\ f2sCloseDone' = closeDone
    /\ f2sPc' = "post"
    /\ failed' = IF e # Nil THEN failed \cup {Report(branch, e)} ELSE failed

\* case 0 with more: a value taken from the function's output channel is
\* marshalled and sent, or the failure is reported
F2SDataValue ==
    /\ ~crashed /\ f2sPc = "select" /\ dataOpen
    /\ fnPc = "sendOut" /\ ~outClosed
    /\ FnAfterSendOut
    /\ accept' = ResolveAccept
    /\ acceptC' = IF accept = <<>> /\ Len(acceptC) > 0 THEN Tail(acceptC) ELSE acceptC
    /\ \E offers \in OfferOrders(supportedMarshallers(OutType(fn))) :
        LET m == functionResultToMessage(OutType(fn), ResolveAccept, offers) IN
        IF m # Nil
        THEN /\ F2SReportPending("data", m, TRUE)
             /\ UNCHANGED sent
        ELSE \/ /\ sent' = SendEnvelope(sent, [value |-> fnSend.value,
                        contentType |-> bestMarshaller(ResolveAccept, offers)])
                /\ UNCHANGED <<f2sPc, f2sReport, f2sBranch, f2sCloseDone, failed>>
             \/ /\ F2SReportPending("data", SendError, TRUE)
                /\ UNCHANGED sent
    /\ streams' = [streams EXCEPT !.output = Append(@, fnSend.value),
                                  !.accepts = Append(@, ResolveAccept)]
    /\ UNCHANGED <<fn, legacy, codec, nego, loader, callVars, s2fVars, dataOpen, errOpen>>
    /\ UNCHANGED <<posted, delivered, closes, crashed>>
    /\ UNCHANGED <<errs, done, inputClosed, outClosed, fnErrsClosed>>

\* case 0 without more: the output channel is closed
F2SDataClosed ==
    /\ ~crashed /\ f2sPc = "select" /\ dataOpen /\ outClosed
    /\ F2SReportPending("data", Nil, FALSE)
    /\ UNCHANGED <<fn, legacy, codec, nego, loader, callVars, s2fVars, fnVars, chanVars>>
    /\ UNCHANGED <<posted, delivered, streams, closes, crashed>>
    /\ UNCHANGED <<dataOpen, errOpen, accept, sent>>

\* variant: an element of the error channel is reported as success
ErrElementFails_Never(e) == FALSE

\* does an element taken from the error channel fail the call
ErrElementFails(e) == e # Nil

\* case 1 with more: an element taken from the function's error channel
F2SErrValue ==
    /\ ~crashed /\ f2sPc = "select" /\ errOpen
    /\ fnPc = "sendErr" /\ ~fnErrsClosed
    /\ FnAfterSendErr
    /\ errOpen' = FALSE
    /\ IF ErrElementFails(fnSend.err)
       THEN F2SReportPending("error", fnSend.err, TRUE)
       ELSE F2SReportPending("error", Nil, FALSE)
    /\ UNCHANGED <<fn, legacy, codec, nego, loader, callVars, s2fVars, chanVars>>
    /\ UNCHANGED <<posted, delivered, streams, closes, crashed>>
    /\ UNCHANGED <<dataOpen, accept, sent>>

\* case 1 without more: the error channel is closed
F2SErrClosed ==
    /\ ~crashed /\ f2sPc = "select" /\ errOpen /\ fnErrsClosed
    /\ errOpen' = FALSE
    /\ F2SReportPending("error", Nil, FALSE)
    /\ UNCHANGED <<fn, legacy, codec, nego, loader, callVars, s2fVars, fnVars, chanVars>>
    /\ UNCHANGED <<posted, delivered, streams, closes, crashed>>
    /\ UNCHANGED <<dataOpen, accept, sent>>

\* variant: the data branch stays in the wait set after a failure report
DataBranchAfterPost_Keep(branch, e, d) ==
    IF branch = "data" /\ e = Nil THEN FALSE ELSE d

\* cases[chosen].Chan = reflect.ValueOf(nil) after a report of the data branch
DataBranchAfterPost(branch, e, d) ==
    IF branch = "data" THEN FALSE ELSE d

\* variant: a failure report is not followed by close(s.done)
F2SAfterPost_NoCancel(closeDone, next) == next

\* what follows s.errs <- report: close(s.done) when the report is a failure,
\* else the end of the loop body
F2SAfterPost(closeDone, next) == IF closeDone THEN "closeDone" ELSE next

\* s.errs <- report; the data branch leaves the wait set after its report
F2SPost ==
    /\ ~crashed /\ f2sPc = "post" /\ CanPost
    /\ Post(Report(f2sBranch, f2sReport))
    /\ dataOpen' = DataBranchAfterPost(f2sBranch, f2sReport, dataOpen)
    /\ f2sPc' = F2SAfterPost(f2sCloseDone, F2SLoopEnd(dataOpen', errOpen))
    /\ UNCHANGED <<fn, legacy, codec, nego, loader, callVars, s2fVars, fnVars>>
    /\ UNCHANGED <<errOpen, f2sReport, f2sBranch, f2sCloseDone, accept, sent>>
    /\ UNCHANGED <<done, acceptC, inputClosed, outClosed, fnErrsClosed>>
    /\ UNCHANGED <<failed, delivered, streams, closes, crashed>>

\* close(s.done) after a failure report
F2SCloseDone ==
    /\ ~crashed /\ f2sPc = "closeDone"
    /\ done' = TRUE
    /\ CloseChan("done", done)
    /\ f2sCloseDone' = FALSE
    /\ f2sPc' = F2SLoopEnd(dataOpen, errOpen)
    /\ UNCHANGED <<fn, legacy, codec, nego, loader, callVars, s2fVars, fnVars>>
    /\ UNCHANGED <<dataOpen, errOpen, f2sReport, f2sBranch, accept, sent>>
    /\ UNCHANGED <<errs, acceptC, inputClosed, outClosed, fnErrsClosed>>
    /\ UNCHANGED <<posted, failed, delivered, streams>>

\* --------------------------------------------------------------------- Next
Next ==
    \/ Call
    \/ S2FRecvEOF
    \/ S2FRecvError
    \/ S2FRecvMessage
    \/ S2FSendInput
    \/ S2FCancelled
    \/ S2FPost
    \/ FnRecvClosed
    \/ WrapperInvoke
    \/ FnCloseErrs
    \/ FnCloseOut
    \/ F2SDataValue
    \/ F2SDataClosed
    \/ F2SErrValue
    \/ F2SErrClosed
    \/ F2SPost
    \/ F2SCloseDone

Spec == Init /\ [][Next]_vars

\* Scheduling: every goroutine that can take a step eventually takes one.
FairSpec ==
    /\ Spec
    /\ WF_vars(Call)
    /\ WF_vars(S2FRecvEOF \/ S2FRecvError \/ S2FRecvMessage \/ S2FSendInput
                \/ S2FCancelled \/ S2FPost)
    /\ WF_vars(FnRecvClosed \/ WrapperInvoke \/ FnCloseErrs \/ FnCloseOut)
    /\ WF_vars(F2SDataValue \/ F2SDataClosed \/ F2SErrValue \/ F2SErrClosed
                \/ F2SPost \/ F2SCloseDone)

\* ---------------------------------------------- single-envelope invocations
\* An invoker made by newInvoker is handed one request envelope.
LegacyInit ==
    /\ StreamInit
    /\ fn = [streaming |-> FALSE, ins |-> <<"string">>, outs |-> <<"string">>]
    /\ \E f \in LegacyShapes, req \in Requests :
          legacy = [pc |-> "request", fn |-> f, request |-> req,
                    fnResult |-> Nil, response |-> NoResponse]
    /\ codec = CodecIdle
    /\ nego = NegoIdle
    /\ loader = LoaderIdle

\* pi.invoke(in): the function's call returns one of the errors it may return
Invoke ==
    /\ legacy.pc = "request"
    /\ \E e \in InnerErrors(legacy.fn),
          offers \in OfferOrders(IF Len(legacy.fn.outs) = 0 THEN {}
                                 ELSE supportedMarshallers(legacy.fn.outs[1])) :
          legacy' = [legacy EXCEPT !.pc = "replied", !.fnResult = e,
                        !.response = invoke(legacy.fn, legacy.request, e, offers)]
    /\ UNCHANGED <<fn, callVars, s2fVars, f2sVars, fnVars, chanVars, histVars, codec, nego, loader>>

LegacyNext == Invoke

LegacySpec == LegacyInit /\ [][LegacyNext]_vars

\* ------------------------------------------------------ payload round trips
\* An envelope is to be unmarshalled into a type: its Content-Type header and
\* its payload, given as a JSON document when the header announces JSON and
\* as bytes when the header is absent or announces plain text.
CodecInit ==
    /\ StreamInit
    /\ fn = [streaming |-> FALSE, ins |-> <<"string">>, outs |-> <<"string">>]
    /\ legacy = LegacyIdle
    /\ nego = NegoIdle
    /\ loader = LoaderIdle
    /\ \E t \in {"string", "struct"} :
          \/ \E d \in JsonDocs, h \in ContentTypeHeaders \ {Absent, TextPlain} :
                codec = [CodecIdle EXCEPT !.pc = "payload", !.header = h,
                                          !.type = t, !.doc = d]
          \/ \E b \in TextPayloads, h \in ContentTypeHeaders \ {AppJson} :
                codec = [CodecIdle EXCEPT !.pc = "payload", !.header = h,
                                          !.type = t, !.text = b]

\* messageToFunctionArgs on the envelope: the content type is the first value
\* of the header (an index out of range when there is none) or the assumed
\* one, and the first unmarshaller that can unmarshal it does so
Unmarshall ==
    /\ codec.pc = "payload"
    /\ IF codec.header = NoValues
       THEN codec' = [codec EXCEPT !.pc = "panic", !.err = IndexOutOfRange]
       ELSE LET contentType == IF codec.header = Absent THEN AssumedContentType
                               ELSE codec.header
                r == IF canUnmarshall(codec.type, contentType) /\ contentType = AppJson
                     THEN jsonUnmarshall(codec.doc, codec.type)
                     ELSE IF canUnmarshall(codec.type, contentType)
                     THEN textUnmarshall(codec.text)
                     ELSE [err |-> ContentTypeNotSupported, value |-> ZeroValue(codec.type)]
            IN  codec' = [codec EXCEPT !.pc = IF r.err = Nil THEN "value" ELSE "failed",
                                       !.mediaType = contentType,
                                       !.err = r.err, !.value = r.value]
    /\ UNCHANGED <<fn, callVars, s2fVars, f2sVars, fnVars, chanVars, histVars, legacy, nego, loader>>

\* the value is marshalled in the media type it came in
Marshall ==
    /\ codec.pc = "value"
    /\ codec' = [codec EXCEPT !.pc = "marshalled",
                    !.outText = IF codec.mediaType = TextPlain
                                THEN textMarshall(codec.value) ELSE "",
                    !.outDoc = IF codec.mediaType = AppJson
                               THEN jsonMarshall(codec.value) ELSE NoDoc]
    /\ UNCHANGED <<fn, callVars, s2fVars, f2sVars, fnVars, chanVars, histVars, legacy, nego, loader>>

CodecNext == Unmarshall \/ Marshall

CodecSpec == CodecInit /\ [][CodecNext]_vars

\* ------------------------------------------------- results to envelopes
\* the media ranges an Accept value may hold
MediaRanges == {TextPlain, AppJson, "bogus/type", AnyType, AnyText, JsonHalf}

\* accept lists of up to two values
NegotiatedAccepts ==
    UNION {[1..n -> MediaRanges] : n \in 0..2}

\* A value of some type is to be turned into an envelope for an accept list;
\* offers is the order in which the range over the marshaller map visits it.
NegoInit ==
    /\ StreamInit
    /\ fn = [streaming |-> FALSE, ins |-> <<"string">>, outs |-> <<"string">>]
    /\ legacy = LegacyIdle
    /\ codec = CodecIdle
    /\ loader = LoaderIdle
    /\ \E t \in {"string", "int", StructType}, acc \in NegotiatedAccepts :
       \E offers \in OfferOrders(supportedMarshallers(t)) :
          nego = [NegoIdle EXCEPT !.pc = "value", !.type = t, !.accept = acc,
                                  !.offers = offers]

\* functionResultToMessage: the envelope carries the chosen media type in its
\* Content-Type header and the payload the chosen marshaller wrote
ResultToMessage ==
    /\ nego.pc = "value"
    /\ LET chosen == bestMarshaller(nego.accept, nego.offers)
       IN  IF functionResultToMessage(nego.type, nego.accept, nego.offers) # Nil
           THEN nego' = [nego EXCEPT !.pc = "failed",
                            !.err = functionResultToMessage(nego.type, nego.accept, nego.offers)]
           ELSE nego' = [nego EXCEPT !.pc = "message", !.chosen = chosen,
                            !.marshaller = MarshallerMap(nego.type)[chosen],
                            !.contentType = MessageContentType(chosen)]
    /\ UNCHANGED <<fn, callVars, s2fVars, f2sVars, fnVars, chanVars, histVars, legacy, codec, loader>>

NegoNext == ResultToMessage

NegoSpec == NegoInit /\ [][NegoNext]_vars

\* -------------------------------------------------- loading a function
\* A URI is given to NewInvoker; the function it names has some signature.
LoaderInit ==
    /\ StreamInit
    /\ fn = [streaming |-> FALSE, ins |-> <<"string">>, outs |-> <<"string">>]
    /\ legacy = LegacyIdle
    /\ codec = CodecIdle
    /\ nego = NegoIdle
    /\ \E uri \in Uris :
       \E sig \in (IF uri = GoodUri THEN Signatures ELSE {Signature(fn)}) :
          loader = [LoaderIdle EXCEPT !.pc = "uri", !.uri = uri, !.sig = sig]

\* NewInvoker(fnUri)
LoadFunction ==
    /\ loader.pc = "uri"
    /\ LET r == NewInvoker(loader.uri, loader.sig)
       IN  loader' = [loader EXCEPT !.pc = r.pc, !.err = r.err,
                                    !.inType = r.inType, !.fnType = r.fnType]
    /\ UNCHANGED <<fn, callVars, s2fVars, f2sVars, fnVars, chanVars, histVars, legacy, codec, nego>>

\* the first statements of Call on the invoker: the input channel is made and
\* the canonical function is called with it
FirstCall ==
    /\ loader.pc = "invoker"
    /\ loader' = [loader EXCEPT !.pc = CallWithInput(loader.fnType)]
    /\ UNCHANGED <<fn, callVars, s2fVars, f2sVars, fnVars, chanVars, histVars, legacy, codec, nego>>

LoaderNext == LoadFunction \/ FirstCall

LoaderSpec == LoaderInit /\ [][LoaderNext]_vars

TypeOK ==
    /\ fn \in Shapes
    /\ callPc \in {"collect", "returned"}
    /\ s2fPc \in {"recv", "select", "post", "done"}
    /\ f2sPc \in {"select", "post", "closeDone", "done"}
    /\ fnPc \in {"recv", "invoke", "sendOut", "sendErr", "closeErrs", "closeOut", "done"}
    /\ Len(errs) <= ErrsCap /\ Len(acceptC) <= AcceptCCap
    /\ i \in 0..NumReports(fn)

\* ================================================================== claims
Returned == callPc = "returned"

\* error of the first non-nil report of a sequence of reports, Nil if none
FirstErr(q) ==
    IF \E k \in 1..Len(q) : q[k].err # Nil
    THEN q[CHOOSE k \in 1..Len(q) :
              q[k].err # Nil /\ \A j \in 1..(k - 1) : q[j].err = Nil].err
    ELSE Nil

\* 2 + (1 if the canonical function has an outbound error stream, else 0)
ExpectedReports == 2 + (IF fn.streaming /\ Len(fn.outs) = 1 THEN 0 ELSE 1)

\* C1: the result Call returns is the first non-nil report it received (nil
\* when all the reports it collected are nil), and it is also the first
\* non-nil report posted: reports posted later do not change it.
C1_FirstNonNilReportWins ==
    Returned => /\ err = FirstErr(collected)
                /\ err = FirstErr(posted)

\* C1 witness: Call has returned an error and a different error was posted
\* after the one it returned.
C1_Witness ==
    /\ Returned /\ err # Nil
    /\ Len(posted) > Len(collected)
    /\ posted[Len(posted)].err \notin {Nil, err}

\* C2: when Call has returned nil, no party has posted a non-nil report.
C2_SuccessNeedsEveryParty ==
    (Returned /\ err = Nil) => \A k \in 1..Len(posted) : posted[k].err = Nil

\* C2 witness: the last of three reports was an error, posted after two
\* successes, and Call returned it.
C2_Witness ==
    /\ Returned /\ err # Nil
    /\ Len(collected) = 3
    /\ collected[3].err # Nil

\* C5 (as stated): Call returns only after collecting exactly
\* 2 + (1 if error stream) reports.
C5_Original_ExactlyNReports ==
    Returned => Len(collected) = ExpectedReports

\* C5 (amended): Call returns success only after collecting exactly
\* 2 + (1 if error stream) reports, all nil; it returns an error as soon as it
\* collects the first non-nil report, having collected at most that many.
C5_ReportsCollected ==
    Returned =>
        /\ Len(collected) \in 1..ExpectedReports
        /\ err = Nil => Len(collected) = ExpectedReports
        /\ \A k \in 1..(Len(collected) - 1) : collected[k].err = Nil
        /\ err = collected[Len(collected)].err

\* C5 witness: Call returned an error after a single report, with an error
\* stream present.
C5_Witness ==
    /\ Returned /\ err # Nil
    /\ Len(collected) = 1 /\ ExpectedReports = 3

\* C6: the inbound data stream is never closed twice, and it has been closed
\* (once) exactly when the inbound task has left its loop.
C6_InputClosedOnce ==
    /\ closes.input <= 1
    /\ (s2fPc \in {"post", "done"}) <=> (closes.input = 1)
    /\ inputClosed <=> (closes.input = 1)

\* C6 witness: the inbound task ended on cancellation after a delivery.
C6_Witness ==
    /\ s2fPc = "done" /\ done /\ s2fReport = Nil
    /\ delivered > 0 /\ recvd > delivered
    /\ closes.input = 1

\* C7: the wrapper of a direct function never closes its outbound data stream
\* or its outbound error stream twice, closes them only when it returns, and
\* has closed each exactly once when its task has ended, whichever path it
\* took (data sent, error sent, nothing to send, invocation skipped).
C7_WrapperClosesBothOnce ==
    ~fn.streaming =>
        /\ closes.out <= 1 /\ closes.fnErrs <= 1
        /\ fnPc = "done" => (closes.out = 1 /\ closes.fnErrs = 1)
        /\ fnPc \in {"recv", "invoke", "sendOut", "sendErr"} =>
                (closes.out = 0 /\ closes.fnErrs = 0)
        /\ outClosed <=> (closes.out = 1)
        /\ fnErrsClosed <=> (closes.fnErrs = 1)

\* C7 witness: the wrapper ended without invoking a one-parameter function,
\* the inbound stream having ended early, and both streams are closed.
C7_Witness ==
    /\ ~fn.streaming /\ isAcceptingInput(fn)
    /\ fnPc = "done" /\ invocations = 0
    /\ closes.out = 1 /\ closes.fnErrs = 1

\* C8 (as stated): for every shape, once the inbound stream has delivered N
\* values and been closed and the function has ended, the function has
\* emitted at most N values on its outbound data stream.
C8_Original_AtMostNValues ==
    (inputClosed /\ fnPc = "done") => outEmitted <= delivered

\* C8 (amended): the wrapper of a direct function emits at most one value on
\* its outbound data stream, and at most N values (N the number of values the
\* inbound stream delivered) when the inner function takes a parameter; the
\* wrapper of a zero-parameter function emits its value with N = 0.
C8_WrapperEmitsAtMostOne ==
    ~fn.streaming =>
        /\ outEmitted <= 1
        /\ isAcceptingInput(fn) => outEmitted <= delivered

\* C8 witness: a zero-parameter direct function emitted one value although
\* the inbound stream delivered none.
C8_Witness ==
    /\ ~fn.streaming /\ ~isAcceptingInput(fn)
    /\ inputClosed /\ fnPc = "done"
    /\ delivered = 0 /\ outEmitted = 1

\* C9: the wrapper invokes the inner function at most once per call, and not
\* at all when the inner function takes a parameter and the inbound stream
\* has yielded no value.
C9_InvokedAtMostOnce ==
    ~fn.streaming =>
        /\ invocations <= 1
        /\ (isAcceptingInput(fn) /\ delivered = 0) => invocations = 0

\* C9 witness: after an upstream failure closed the inbound stream with no
\* value delivered, the wrapper of a one-parameter function has ended without
\* an invocation.
C9_Witness ==
    /\ ~fn.streaming /\ isAcceptingInput(fn)
    /\ failed # {} /\ inputClosed /\ delivered = 0
    /\ fnPc = "done" /\ invocations = 0

\* C10: for the invocation of a direct function the wrapper sends at most one
\* element in all on its two outbound streams: after a non-nil error return
\* no data value is sent, after a nil error return nothing is sent on the
\* error stream, and the element sent on the error stream is never nil.
C10_DataOrErrorNeverBoth ==
    ~fn.streaming =>
        /\ outEmitted + errEmitted <= 1
        /\ fnResult = FunctionError => (outEmitted = 0 /\ fnPc # "sendOut")
        /\ fnResult \in {Nil, "none"} => (errEmitted = 0 /\ fnPc # "sendErr")
        /\ fnPc = "sendErr" => fnSend.err # Nil

\* C10 witness: a function with a data return and an error return returned a
\* non-nil error; it was sent on the error stream and no data value was sent.
C10_Witness ==
    /\ ~fn.streaming /\ hasReturnValue(fn) /\ isErroring(fn)
    /\ fnResult = FunctionError
    /\ fnPc = "done" /\ errEmitted = 1 /\ outEmitted = 0

\* C3: under fair scheduling Call eventually returns, for every shape and
\* every sequence of inbound envelopes followed by end-of-input: the call
\* never stays blocked (a panic that ends the process is not counted as a
\* call that stays blocked).
C3_CallEventuallyReturns == <>(Returned \/ crashed)

\* the errors messageToFunctionArgs returns for an envelope
UnmarshalErrors == {ContentTypeNotSupported, ErrorWhileUnmarshalling}

\* an inbound envelope failed to unmarshal and the user function emitted an
\* error, and nothing else failed in the call
BothFailed ==
    \E u \in UnmarshalErrors :
        failed = {Report("inbound", u), Report("error", FunctionError)}

\* number of reports a party has posted
PostsOf(p) == Cardinality({k \in 1..Len(posted) : posted[k].party = p})

\* C4: when an inbound envelope fails to unmarshal and the user function also
\* emits an error, no party posts twice, Call returns (under fair scheduling)
\* and what it returns is the one of the two errors that was posted first.
C4_FirstErrorWins ==
    /\ [](BothFailed =>
            /\ \A p \in Parties : PostsOf(p) <= 1
            /\ Returned =>
                /\ err \in UnmarshalErrors \cup {FunctionError}
                /\ err = FirstErr(posted))
    /\ (BothFailed ~> Returned)

\* C4 witness: both errors have been posted, the function's error after the
\* unmarshalling error, and Call has returned the unmarshalling error.
C4_Witness ==
    /\ BothFailed /\ Returned
    /\ err \in UnmarshalErrors
    /\ \E k \in 1..Len(posted) : posted[k] = Report("error", FunctionError)

\* values carried by the envelopes put on the network stream, in order
SentValues == [k \in 1..Len(sent) |-> sent[k].value]

\* Call has returned nil: the network stream ends after the envelopes sent
EndOfStream == Returned /\ err = Nil

\* C11: in a call in which nothing has failed, the envelopes sent on the
\* network stream carry exactly the values the function emitted on its
\* outbound data stream, in the order of emission, none lost and none twice,
\* each in a media type offered for the output type, and the stream ends only
\* after the function has closed its output; the values delivered on the
\* function's inbound stream are the envelopes' values in arrival order.
C11_StreamsInOrder ==
    failed = {} =>
        /\ SentValues = streams.output
        /\ \A k \in 1..Len(sent) :
              sent[k].contentType \in supportedMarshallers(OutType(fn))
        /\ streams.input = [k \in 1..Len(streams.input) |-> k]
        /\ Len(streams.input) = IF s2fPc = "select" THEN recvd - 1 ELSE recvd
        /\ EndOfStream => (outClosed /\ s2fPc = "done" /\ Len(sent) = outEmitted)

\* a streaming function was given two values and emitted two, and the call
\* ended in success
C11_Witness ==
    /\ EndOfStream /\ failed = {}
    /\ Len(sent) = 2 /\ Len(streams.input) = 2

\* C12: the cancellation signal s.done is closed at most once during a call,
\* whatever the function emits.
C12_DoneClosedAtMostOnce == closes.done <= 1

\* the user function has reported an error: a non-nil element was taken from
\* its error stream
FnErrored == errEmitted = 1 /\ fnSend.err = FunctionError

\* position in posted of the report of party p, 0 when p has not posted
PostIndex(p) ==
    IF \E k \in 1..Len(posted) : posted[k].party = p
    THEN CHOOSE k \in 1..Len(posted) : posted[k].party = p
    ELSE 0

\* party p has posted its report and no failure was posted before it
NoFailureBefore(p) ==
    /\ PostIndex(p) > 0
    /\ \A j \in 1..(PostIndex(p) - 1) : posted[j].err = Nil

\* C13: when the user function has reported an error and no other failure
\* was reported before it, Call returns, and what it returns is exactly that
\* error.
C13_FunctionErrorReturned ==
    /\ []((FnErrored /\ NoFailureBefore("error") /\ Returned)
            => err = FunctionError)
    /\ ((FnErrored /\ NoFailureBefore("error")) ~> Returned)

\* the function's error was posted after a nil report and Call returned it
C13_Witness ==
    /\ FnErrored /\ NoFailureBefore("error") /\ PostIndex("error") = 2
    /\ Returned /\ err = FunctionError

\* the inbound task has failed on an envelope it could not unmarshal
UnmarshalFailed ==
    \E e \in UnmarshalErrors : Report("inbound", e) \in failed

\* C14: when an envelope has an unsupported content type or fails to
\* unmarshal, the inbound task closes the function's input, reports that
\* error and ends: it reads no later envelope, neither the value of that
\* envelope nor any later value is delivered to the function, and when no
\* failure was reported before it Call fails with that error.
C14_UnmarshalFailureEndsInbound ==
    /\ [](UnmarshalFailed =>
            /\ inputClosed /\ s2fPc \in {"post", "done"}
            /\ s2fReport \in UnmarshalErrors
            /\ \A k \in 1..Len(streams.input) : streams.input[k] < recvd
            /\ (s2fPc = "done" => PostIndex("inbound") > 0
                                  /\ posted[PostIndex("inbound")].err = s2fReport)
            /\ (NoFailureBefore("inbound") /\ Returned) => err = s2fReport)
    /\ [][UnmarshalFailed =>
            (recvd' = recvd /\ streams'.input = streams.input
             /\ s2fReport' = s2fReport)]_vars

\* the second envelope failed to unmarshal after the first was delivered, and
\* Call returned that error
C14_Witness ==
    /\ UnmarshalFailed /\ recvd = 2 /\ Len(streams.input) = 1
    /\ NoFailureBefore("inbound") /\ Returned /\ err = s2fReport

\* errors with which the handling of a data value can fail
DataErrors == {AcceptNotSupported, SendError}

\* negotiation, marshalling or sending has failed for a data value
DataFailed == \E e \in DataErrors : Report("data", e) \in failed

\* C15: when negotiation, marshalling or sending fails for a data value, the
\* outbound task reports that error, closes s.done and takes the data branch
\* out of its wait set: no envelope is sent afterwards, and when no failure
\* was reported before it Call fails with that error.
C15_DataFailureEndsDataBranch ==
    /\ [](DataFailed =>
            /\ PostIndex("data") = 0 =>
                  (f2sPc = "post" /\ f2sBranch = "data" /\ f2sReport \in DataErrors)
            /\ PostIndex("data") > 0 =>
                  /\ posted[PostIndex("data")].err \in DataErrors
                  /\ ~dataOpen
                  /\ (done \/ f2sPc = "closeDone")
                  /\ (NoFailureBefore("data") /\ Returned)
                        => err = posted[PostIndex("data")].err)
    /\ [][DataFailed => sent' = sent]_vars
    /\ (DataFailed ~> (done /\ ~dataOpen))

\* the second data value failed after the first was sent, cancellation was
\* triggered and Call returned the failure
C15_Witness ==
    /\ DataFailed /\ Len(sent) = 1 /\ Len(streams.output) = 2
    /\ done /\ ~dataOpen
    /\ NoFailureBefore("data") /\ Returned /\ err \in DataErrors

\* the media types offered for a string result
StringOffers == {TextPlain, AppJson}

\* the media type the claim expects for an accept list, "" for no match
ExpectedMediaType(acc) ==
    IF acc = <<AppJson>> THEN AppJson
    ELSE IF acc = <<>> \/ acc = <<TextPlain>> THEN TextPlain
    ELSE ""

\* C16: with text/plain and application/json on offer (a string result), the
\* accept list [application/json] selects application/json, an absent Accept
\* header or an empty list selects text/plain, and [bogus/type] matches
\* nothing: bestMarshaller yields "", no envelope is sent for that value and
\* the call fails with AcceptNotSupported when nothing failed before.
C16_Negotiation ==
    /\ supportedMarshallers("string") = StringOffers
    /\ \A acc \in AcceptLists, offers \in OfferOrders(StringOffers) :
          bestMarshaller(acc, offers) = ExpectedMediaType(acc)
    /\ OutType(fn) = "string" =>
        /\ \A k \in 1..Len(sent) :
              sent[k].contentType = ExpectedMediaType(streams.accepts[k])
        /\ (\A k \in 1..Len(streams.headers) : ~streams.headers[k].present) =>
              \A k \in 1..Len(streams.accepts) : streams.accepts[k] = <<TextPlain>>
        /\ \A k \in 1..Len(streams.accepts) :
              ExpectedMediaType(streams.accepts[k]) = "" =>
                  /\ Len(sent) < k
                  /\ Report("data", AcceptNotSupported) \in failed
                  /\ (NoFailureBefore("data") /\ Returned) => err = AcceptNotSupported

\* a string result was sent as text/plain under an empty accept list, and the
\* next one matched nothing and failed the call
C16_Witness ==
    /\ OutType(fn) = "string" /\ Len(sent) = 1
    /\ streams.accepts = << <<>>, <<"bogus/type">> >>
    /\ Returned /\ err = AcceptNotSupported

\* C17: an integer result is marshalled as text/plain when the accept list
\* is text/plain or absent: negotiation selects text/plain and the value is
\* sent (42 as "42"), it is not refused.
C17_IntegerAsTextPlain ==
    OutType(fn) = "int" =>
        \A k \in 1..Len(streams.accepts) :
            streams.accepts[k] \in {<<>>, <<TextPlain>>} =>
                /\ Report("data", AcceptNotSupported) \notin failed
                /\ k <= Len(sent) => sent[k].contentType = TextPlain

\* accept lists that name a media type a client may expect a result in (the
\* nil list stands for text/plain)
ClientAccepts == {<<>>, <<TextPlain>>, <<AppJson>>}

\* the arguments of a call that can succeed: every accept list used is one a
\* client may expect, the inner function returned no error and the network
\* took every envelope
InvocationCanSucceed ==
    /\ \A k \in 1..Len(streams.accepts) : streams.accepts[k] \in ClientAccepts
    /\ fnResult = Nil
    /\ Report("data", SendError) \notin failed

\* the network stream delivered n envelopes, each handed to the function,
\* and then the end of input
EnvelopesThenEOF(n) ==
    /\ recvd = n /\ Len(streams.input) = n
    /\ s2fPc \in {"post", "done"} /\ s2fReport = Nil

\* C18: a direct function (one parameter, a data return) given exactly one
\* envelope: the call succeeds with exactly one outbound envelope followed
\* by the end of the stream, whether the end of input arrives before or
\* after the envelope is sent.
C18_OneEnvelopeOneReply ==
    (/\ ~fn.streaming /\ isAcceptingInput(fn) /\ hasReturnValue(fn)
     /\ EnvelopesThenEOF(1) /\ InvocationCanSucceed
     /\ Returned)
    => (err = Nil /\ Len(sent) = 1 /\ outClosed)

\* C19: a zero-parameter direct function whose network stream ends without
\* any envelope: the inner function is invoked exactly once; its data return
\* (if it has one) is sent as exactly one envelope and the call succeeds, or
\* its non-nil error return is the error Call returns.
C19_ZeroParameterOnEOF ==
    (/\ ~fn.streaming /\ ~isAcceptingInput(fn)
     /\ EnvelopesThenEOF(0)
     /\ Report("data", SendError) \notin failed
     /\ Returned)
    => /\ invocations = 1
       /\ \/ /\ fnResult = Nil /\ err = Nil
             /\ Len(sent) = IF hasReturnValue(fn) THEN 1 ELSE 0
          \/ /\ fnResult = FunctionError /\ err = FunctionError
             /\ sent = <<>>

\* C20: after cancellation has been triggered (s.done is closed), the
\* function's inbound data stream is eventually closed.
C20_CancellationClosesInput == done ~> inputClosed

\* both goroutines of the call have returned
TasksEnded == s2fPc = "done" /\ f2sPc = "done"

\* C21: after Call has returned, the inbound task and the outbound task both
\* eventually terminate; neither stays blocked for ever on s.errs or on
\* another channel (a process that panicked has no task left).
C21_TasksTerminate == Returned ~> (TasksEnded \/ crashed)

\* C22: canonicalization succeeds for each of the ten supported shapes and
\* yields a function with exactly one parameter, a receivable inbound stream,
\* whose results are one receivable outbound data stream and at most one
\* further result, a receivable stream of errors; the types the call then
\* works with are those of that function.
C22_CanonicalForm ==
    LET c == canonicalize(Signature(fn)) IN
        /\ c.err = Nil
        /\ Len(c.fn.ins) = 1
        /\ c.fn.ins[1].kind = "chan" /\ canReceive(c.fn.ins[1])
        /\ Len(c.fn.outs) \in {1, 2}
        /\ c.fn.outs[1].kind = "chan" /\ canReceive(c.fn.outs[1])
        /\ Len(c.fn.outs) = 2 =>
              /\ c.fn.outs[2].kind = "chan" /\ canReceive(c.fn.outs[2])
              /\ c.fn.outs[2].elem = ErrorType
        /\ c.fn.ins[1].elem = c.inType
        /\ InType(fn) = c.inType
        /\ OutType(fn) = c.fn.outs[1].elem
        /\ NumChannelValues(fn) = Len(c.fn.outs)

\* a wrapped zero-parameter function was called through its canonical form,
\* ran and the call succeeded
C22_Witness ==
    /\ ~fn.streaming /\ ~isAcceptingInput(fn)
    /\ Len(canonicalize(Signature(fn)).fn.outs) = 2
    /\ invocations = 1 /\ EndOfStream

\* the single-envelope invocation has produced its outcome
Replied == legacy.pc = "replied"

\* the response is a normal envelope that encodes the error: its payload is
\* the error's text, its `error` header the code, its content type text/plain
IsErrorEnvelope(code, text) ==
    /\ legacy.response.kind = "envelope"
    /\ legacy.response.payload = text
    /\ Error \in DOMAIN legacy.response.headers
    /\ legacy.response.headers[Error] = HeaderValue(<<code>>)
    /\ legacy.response.headers[ContentType] = HeaderValue(<<TextPlain>>)

\* the content type of the request, text/plain when it has none
RequestContentType ==
    IF legacy.request.contentType = Absent THEN TextPlain
    ELSE legacy.request.contentType

\* the request's payload was unmarshalled into the string parameter
ArgumentUnmarshalled ==
    \/ RequestContentType = TextPlain
    \/ RequestContentType = AppJson /\ legacy.request.jsonOk

\* the five failures of a single-envelope invocation are each answered with
\* the envelope that encodes them
LegacyFailuresEncoded ==
    Replied =>
        /\ RequestContentType \notin {TextPlain, AppJson} =>
              IsErrorEnvelope(ContentTypeNotSupported,
                              <<"Unsupported Content-Type: ", RequestContentType>>)
        /\ (RequestContentType = AppJson /\ ~legacy.request.jsonOk) =>
              IsErrorEnvelope(ErrorWhileUnmarshalling, <<"json: cannot decode">>)
        /\ (ArgumentUnmarshalled /\ legacy.fnResult # Nil) =>
              IsErrorEnvelope(InvocationError, <<"Oops">>)
        /\ (ArgumentUnmarshalled /\ legacy.fnResult = Nil
            /\ Len(legacy.fn.outs) > 0
            /\ legacy.request.accept = [present |-> TRUE, values |-> <<"bogus/type">>]) =>
              IsErrorEnvelope(AcceptNotSupported, <<>>)
        /\ (ArgumentUnmarshalled /\ legacy.fnResult = Nil
            /\ Len(legacy.fn.outs) > 0 /\ legacy.fn.outs[1] = "chan"
            /\ legacy.request.accept = [present |-> TRUE, values |-> <<AppJson>>]) =>
              IsErrorEnvelope(ErrorWhileMarshalling, <<"json: unsupported type">>)

\* C23: the legacy single-envelope invoke never surfaces a fault: it always
\* answers with a normal envelope, and an unsupported content type, an
\* unmarshalling failure, an unsupported accept type, a marshalling failure
\* or a function error is encoded in that envelope (payload = the error's
\* message, header `error` = the error's code).
C23_LegacyNeverFaults ==
    /\ Replied => legacy.response.kind = "envelope"
    /\ LegacyFailuresEncoded

\* C24: in legacy single-envelope mode a correlationId header present on the
\* request envelope is copied verbatim to the response envelope, on success
\* responses and on error responses alike.
C24_CorrelationIdCopied ==
    (/\ Replied /\ legacy.response.kind = "envelope"
     /\ legacy.request.correlationId.present)
    => /\ CorrelationId \in DOMAIN legacy.response.headers
       /\ legacy.response.headers[CorrelationId]
            = HeaderValue(legacy.request.correlationId.values)

\* an error response to a request that carried a correlationId
C24_Witness ==
    /\ Replied /\ legacy.request.correlationId.values = <<"foobar">>
    /\ IsErrorEnvelope(InvocationError, <<"Oops">>)
    /\ legacy.response.headers[CorrelationId] = HeaderValue(<<"foobar">>)

\* a payload has been unmarshalled and the value marshalled again
RoundTripDone == codec.pc = "marshalled"

\* two JSON payloads are equal up to insignificant whitespace
SameJson(d, e) == d.value = e.value /\ d.rest = e.rest

EncoderForm(d, t) ==
    /\ ~d.rest
    /\ IF t = "string" THEN d.value.kind = "string"
       ELSE /\ d.value.kind = "object"
            /\ DOMAIN d.value.members = {"Word", "Count"}
            /\ d.value.members["Word"].kind = "string"
            /\ d.value.members["Count"].kind = "number"

C26_AcceptResolvedOnce ==
    \A k \in 1..Len(streams.accepts) : streams.accepts[k] = streams.accepts[1]

\* the error the function emitted on its error stream has been posted on s.errs
FnErrorPosted == \E k \in 1..Len(posted) : posted[k] = Report("error", FunctionError)

Prefix(q, n) == [k \in 1..n |-> q[k]]

NonNilErrorTaken == errEmitted = 1 /\ fnSend.err # Nil

\* C28: the report of the error branch is nil when the error stream was
\* closed or gave a nil element and is the element when that is non-nil; the
\* branch leaves the wait set in both cases, and s.done is closed after the
\* report only when the element is non-nil.
C28_ErrorBranchReport ==
    /\ (f2sBranch = "error" /\ f2sPc = "post") =>
          /\ ~errOpen
          /\ f2sReport = (IF NonNilErrorTaken THEN fnSend.err ELSE Nil)
          /\ f2sCloseDone <=> NonNilErrorTaken
    /\ (f2sBranch = "error" /\ f2sPc = "closeDone") =>
          /\ NonNilErrorTaken
          /\ \E k \in 1..Len(posted) : posted[k] = Report("error", fnSend.err)
    /\ \A k \in 1..Len(posted) :
          posted[k].party = "error" =>
              /\ ~errOpen
              /\ posted[k].err = (IF NonNilErrorTaken THEN fnSend.err ELSE Nil)
    /\ done => (DataFailed \/ NonNilErrorTaken)

\* the error stream gave a nil element: a nil report was posted for the
\* error branch and s.done stayed open
C28_Witness ==
    /\ errEmitted = 1 /\ fnSend.err = Nil
    /\ \E k \in 1..Len(posted) : posted[k] = Report("error", Nil)
    /\ ~errOpen /\ ~done /\ f2sPc # "closeDone"

\* the step in which the inbound task leaves its select by the s.done branch
CancelBranchTaken == s2fPc = "select" /\ s2fPc' = "post"

\* the inbound task has left its loop
InboundEnding == s2fPc \in {"post", "done"}

\* C29: when the inbound task's select takes the s.done branch, the value in
\* hand is not delivered, s.input is closed and a nil report is what the task
\* posts; after that it receives no envelope and delivers nothing, and its
\* only step is the posting of that report.
C29_CancelBranch ==
    [][ /\ CancelBranchTaken =>
              /\ done /\ inputClosed'
              /\ s2fReport' = Nil
              /\ streams'.input = streams.input /\ delivered' = delivered
        /\ InboundEnding =>
              /\ InboundEnding'
              /\ recvd' = recvd /\ s2fVal' = s2fVal /\ s2fReport' = s2fReport
              /\ streams'.input = streams.input /\ delivered' = delivered
              /\ inputClosed'
              /\ s2fPc' # s2fPc =>
                    (s2fPc' = "done" /\ posted' = Append(posted, Report("inbound", s2fReport)))
      ]_vars

\* the s.done branch was taken with a value in hand: the task has ended with
\* a nil report posted and the value is not among those delivered
C29_Witness ==
    /\ s2fPc = "done" /\ s2fReport = Nil /\ done /\ inputClosed
    /\ s2fVal = recvd /\ s2fVal > Len(streams.input)
    /\ \E k \in 1..Len(posted) : posted[k] = Report("inbound", Nil)

\* a failure has been posted on s.errs
FailurePosted == \E k \in 1..Len(posted) : posted[k].err # Nil

\* a failure has been posted by the inbound task
InboundFailurePosted ==
    \E k \in 1..Len(posted) : posted[k].party = "inbound" /\ posted[k].err # Nil

\* a failure has been posted by the outbound task, for a data value or for
\* an element of the function's error stream
OutboundFailurePosted ==
    \E k \in 1..Len(posted) : posted[k].party \in {"data", "error"} /\ posted[k].err # Nil

\* C30 (as stated): whichever party reports the first failure of the call,
\* s.done is closed.
C30_Original_FirstFailureCancels == FailurePosted ~> done

\* C30 (amended): a failure reported by the outbound task is followed by the
\* closing of s.done, and s.done is closed by nothing else; a failure reported
\* by the inbound task closes s.input and leaves s.done as it is.
C30_OutboundFailureCancels ==
    /\ OutboundFailurePosted ~> done
    /\ [](done => OutboundFailurePosted)
    /\ [](InboundFailurePosted => inputClosed)

\* the first failure of the call was reported by the outbound task and
\* s.done has been closed
C30_Witness ==
    /\ done /\ OutboundFailurePosted /\ ~InboundFailurePosted
    /\ posted[1].err # Nil

\* C31: each of the inbound task, the data branch and the error branch has
\* posted at most one report, so at most 2 + (1 if the function has an error
\* stream) reports have been posted; the outbound loop has ended only with
\* both branches out of the wait set, and waits in its select only with a
\* branch in it.
C31_ReportsAtMostOnce ==
    /\ \A p \in Parties : PostsOf(p) <= 1
    /\ PostsOf("error") = 1 => HasErrStream(fn)
    /\ Len(posted) <= NumReports(fn)
    /\ f2sPc = "done" => (~dataOpen /\ ~errOpen)
    /\ f2sPc = "select" => (dataOpen \/ errOpen)

\* all three parties have posted their report and the outbound loop has ended
C31_Witness ==
    /\ HasErrStream(fn) /\ Len(posted) = 3
    /\ f2sPc = "done" /\ s2fPc = "done"

\* messageToFunctionArgs has been applied to the envelope
ArgsDone == codec.pc \in {"value", "failed", "panic", "marshalled"}

\* the content type the claim gives the envelope: the header's, text/plain
\* without a header
ClaimedContentType == IF codec.header = Absent THEN TextPlain ELSE codec.header

\* C32: messageToFunctionArgs ends in one of three ways: no unmarshaller
\* accepts (input type, content type) and it fails with
\* ContentTypeNotSupported; the chosen one fails and it returns
\* ErrorWhileUnmarshalling; or it returns the unmarshalled value.
C32_MessageToFunctionArgs ==
    ArgsDone =>
        IF ~canUnmarshall(codec.type, ClaimedContentType)
        THEN codec.pc = "failed" /\ codec.err = ContentTypeNotSupported
        ELSE IF ClaimedContentType = AppJson
        THEN IF jsonUnmarshall(codec.doc, codec.type).err # Nil
             THEN codec.pc = "failed" /\ codec.err = ErrorWhileUnmarshalling
             ELSE /\ codec.pc \in {"value", "marshalled"}
                  /\ codec.value = jsonUnmarshall(codec.doc, codec.type).value
        ELSE /\ codec.pc \in {"value", "marshalled"}
             /\ codec.value = GoString(codec.text)

\* the accept list as bestMarshaller reads it
EffectiveAccept(acc) == IF acc = <<>> THEN <<TextPlain>> ELSE acc

\* does the accept list permit the media type: one of its ranges, with a
\* weight above zero, is the type itself or a wildcard that covers it
Permits(acc, mediaType) ==
    \E k \in 1..Len(EffectiveAccept(acc)) :
        LET spec == AcceptSpec(EffectiveAccept(acc)[k])
        IN  /\ spec.q > 0
            /\ \/ spec.value = mediaType
               \/ spec.value = AnyType
               \/ spec.value = AnyText /\ MainType(mediaType) = "text"

\* the marshallers that offer the media type for a value of type t
Offering(t, mediaType) ==
    {k \in 1..Len(Marshallers) : mediaType \in supportedMediaTypes(Marshallers[k], t)}

\* C33: an envelope made for a value carries a Content-Type header equal to
\* the negotiated media type; that type is offered by a registered
\* marshaller for the value's type and is permitted by the accept list, and
\* the marshaller used is the first registered one that offers it.
C33_ContentTypeNegotiated ==
    nego.pc = "message" =>
        /\ nego.contentType = nego.chosen
        /\ Offering(nego.type, nego.chosen) # {}
        /\ Permits(nego.accept, nego.chosen)
        /\ \E k \in Offering(nego.type, nego.chosen) :
              /\ nego.marshaller = Marshallers[k]
              /\ \A j \in Offering(nego.type, nego.chosen) : k <= j

\* a string was made into a text/plain envelope under a wildcard for text
C33_Witness ==
    /\ nego.pc = "message" /\ nego.type = "string"
    /\ nego.accept = <<AnyText, "bogus/type">>
    /\ nego.contentType = TextPlain /\ nego.marshaller = "text"

\* C37: the media type bestMarshaller returns depends on the accept list and
\* the set of offers only: whatever the order in which the offers are
\* visited, the result is the one obtained.
C37_BestMarshallerDeterministic ==
    nego.pc \in {"message", "failed"} =>
        \A offers \in OfferOrders(supportedMarshallers(nego.type)) :
            bestMarshaller(nego.accept, offers) = nego.chosen

\* NewInvoker got as far as examining the function's signature
SignatureExamined ==
    /\ loader.pc \in {"invoker", "error", "called", "panic"}
    /\ loader.uri = GoodUri

\* the errors canonicalize returns for a signature it does not support
InvalidSignature ==
    {"too many return values", "wrong direction of channels",
     "second return type of function should be ([<-]chan error)",
     "too many arguments to non streaming function"}

\* a streaming function: its first parameter and its first result are channels
IsStreaming(sig) ==
    /\ Len(sig.ins) > 0 /\ sig.ins[1].kind = "chan"
    /\ Len(sig.outs) > 0 /\ sig.outs[1].kind = "chan"

\* a receive-capable stream of error elements
IsErrorStream(t) == t.kind = "chan" /\ t.elem = ErrorType /\ t.dir \in {"recv", "both"}

\* the four kinds of signature the claim lists
ListedAsInvalid(sig) ==
    \/ Len(sig.outs) > 2
    \/ ~IsStreaming(sig) /\ Len(sig.ins) > 1
    \/ IsStreaming(sig) /\ (sig.ins[1].dir = "send" \/ sig.outs[1].dir = "send")
    \/ IsStreaming(sig) /\ Len(sig.outs) = 2 /\ ~IsErrorStream(sig.outs[2])

\* C34: for a function with more than two results, a non-streaming function
\* with more than one parameter, a streaming function whose first parameter
\* or first result cannot be received from, and a streaming function whose
\* second result is not a receivable stream of errors, NewInvoker returns an
\* invalid-signature error and no call is made on the invoker.
C34_InvalidSignatures ==
    (SignatureExamined /\ ListedAsInvalid(loader.sig)) =>
        /\ loader.pc = "error"
        /\ loader.err \in InvalidSignature

\* a streaming function with a send-only output channel was refused
C34_Witness ==
    /\ loader.pc = "error" /\ loader.uri = GoodUri
    /\ loader.sig = [ins |-> <<Chan("recv", "string")>>, outs |-> <<Chan("send", "string")>>]
    /\ loader.err = "wrong direction of channels"

\* canonicalization of the function's signature has succeeded
Canonicalized == SignatureExamined /\ loader.err = Nil

\* a type that is neither a channel nor error
IsValueType(t) == t.kind = "plain" /\ t.elem # ErrorType

\* the ten supported shapes: f(X) or f() with results (Y, error), Y, none or
\* error, and func(<-chan X) <-chan Y with or without a <-chan error
IsSupportedShape(sig) ==
    \/ /\ Len(sig.ins) <= 1
       /\ \A k \in 1..Len(sig.ins) : IsValueType(sig.ins[k])
       /\ \/ Len(sig.outs) = 0
          \/ Len(sig.outs) = 1 /\ sig.outs[1].kind = "plain"
          \/ /\ Len(sig.outs) = 2
             /\ IsValueType(sig.outs[1]) /\ sig.outs[2] = Plain(ErrorType)
    \/ /\ Len(sig.ins) = 1 /\ Len(sig.outs) \in {1, 2}
       /\ sig.ins[1].kind = "chan" /\ sig.ins[1].dir # "send"
       /\ sig.outs[1].kind = "chan" /\ sig.outs[1].dir # "send"
       /\ Len(sig.outs) = 2 => IsErrorStream(sig.outs[2])

\* C38: a signature for which canonicalization succeeds is one of the ten
\* supported shapes, and the call of the canonical function with the one
\* inbound stream that Call makes does not fail.
C38_OnlySupportedShapes ==
    Canonicalized =>
        /\ IsSupportedShape(loader.sig)
        /\ loader.pc \in {"invoker", "called"}

\* NewInvoker has ended, one way or another
Loaded == loader.pc \notin {"idle", "uri"}

\* the URI is one NewInvoker is to refuse
BadUri(uri) ==
    \/ ~uri.parses
    \/ uri.scheme \notin {"", "file"}
    \/ ~uri.loads
    \/ uri.handler # "exported"

\* C40: NewInvoker ends by returning an invoker or an error and in no other
\* way; a scheme other than empty or file, a library that does not load, a
\* handler that is absent from the URI or not exported by the library, and
\* an invalid signature each give an error.
C40_NewInvokerReturns ==
    Loaded =>
        /\ loader.err # Nil => loader.pc = "error"
        /\ BadUri(loader.uri) => loader.pc = "error"
        /\ (loader.uri = GoodUri /\ ListedAsInvalid(loader.sig)) => loader.pc = "error"

\* C35: in legacy single-envelope mode, when the request envelope carries no
\* correlationId header, the header map of the response envelope has no
\* correlationId entry; its other headers are the ones the response was
\* built with.
C35_NoCorrelationIdEntry ==
    (/\ Replied /\ legacy.response.kind = "envelope"
     /\ ~legacy.request.correlationId.present)
    => /\ CorrelationId \notin DOMAIN legacy.response.headers
       /\ DOMAIN legacy.response.headers \subseteq {ContentType, Error}

\* the outbound task has negotiated the first output of a direct
\* one-parameter function whose first inbound envelope carried an Accept header
FirstOutputNegotiated ==
    /\ ~fn.streaming /\ isAcceptingInput(fn)
    /\ Len(streams.headers) >= 1 /\ streams.headers[1].present
    /\ Len(streams.accepts) >= 1

\* C36: for a direct one-parameter function, whose first output follows the
\* receipt of the first value, an Accept header on the first inbound envelope
\* is the accept list the first output is negotiated with; the outbound task
\* does not fall back to its text/plain default, whatever the interleaving.
C36_FirstAcceptUsed ==
    FirstOutputNegotiated =>
        /\ streams.accepts[1] = streams.headers[1].values
        /\ \A k \in 1..Len(sent) : k = 1 =>
              \E offers \in OfferOrders(supportedMarshallers(OutType(fn))) :
                  sent[k].contentType = bestMarshaller(streams.headers[1].values, offers)

\* the first envelope asked for application/json and the reply to it was
\* sent as application/json
C36_Witness ==
    /\ FirstOutputNegotiated
    /\ streams.headers[1].values = <<AppJson>>
    /\ Len(sent) >= 1 /\ sent[1].contentType = AppJson

\* the wrapper of a zero-parameter direct function is past its invocation step
ZeroParameterInvoked ==
    /\ ~fn.streaming /\ ~isAcceptingInput(fn)
    /\ fnPc \notin {"recv", "invoke"}

\* C39: the wrapper of a zero-parameter direct function invokes the inner
\* function exactly once, with no argument, whether the inbound stream was
\* closed without a value or yielded a value first; a delivered value does
\* not make the invocation fail.
C39_ZeroParameterInvokedOnce ==
    ZeroParameterInvoked => invocations = 1 /\ ~fnPanic


====
